---- MODULE Spec2Model ----
(***************************************************************************)
(* next-runtime-env / next-standalone-env: runtime resolution of the       *)
(* process environment.                                                    *)
(*                                                                         *)
(* Three programs are modelled:                                            *)
(*   - the library (src/src/index.ts): getCurrentEnvironment,              *)
(*     resolveRuntimeEnv, patchProcessEnv, called by a host program on the *)
(*     live process environment (specification Spec);                      *)
(*   - a host that also uses runtimeEnvMiddleware and withRuntimeEnv and   *)
(*     writes to process.env and to the mappings it holds (HostSpec);      *)
(*   - the bootstrap script (src/server.js): configuration loading, its    *)
(*     own inline resolveRuntimeEnv, then the wrapped Next.js server       *)
(*     (specification BootSpec).                                           *)
(*                                                                         *)
(* process.env is a function from the names that are set to strings; a     *)
(* name outside its DOMAIN reads as Undefined.  An object literal's        *)
(* entries (Object.entries) are a sequence of <<key, value>> pairs in      *)
(* insertion order.                                                        *)
(***************************************************************************)
EXTENDS Integers, Sequences, FiniteSets, TLC

VARIABLES
    processEnv,   \* process.env of the running process
    config,       \* the RuntimeEnvConfig object in use
    last,         \* the library call made last, with its outcome
    pc,           \* bootstrap: position in server.js
    argFile,      \* bootstrap: the file named by --config
    localFile,    \* bootstrap: runtime-env.config.js of the working directory
    envAtStart,   \* bootstrap: process.env when the script started
    log           \* bootstrap: the lines server.js has written to the console

vars == <<processEnv, config, last, pc, argFile, localFile, envAtStart, log>>

-----------------------------------------------------------------------------
(* Values                                                                  *)

\* What JavaScript yields for a property that is not there.
Undefined == "<undefined>"

\* The largest number of variables set in the initial process environment.
MaxEnvVars == 2

\* JavaScript truthiness of a string-or-undefined value.
Truthy(v) == v # Undefined /\ v # ""

\* process.env[key], or obj[key] of a string-keyed mapping.
Get(env, key) == IF key \in DOMAIN env THEN env[key] ELSE Undefined

\* obj[key] = value on a mapping.
Put(env, key, value) ==
    [k \in DOMAIN env \cup {key} |-> IF k = key THEN value ELSE env[k]]

\* String.prototype.startsWith
StartsWith(s, prefix) ==
    Len(s) >= Len(prefix) /\ SubSeq(s, 1, Len(prefix)) = prefix

\* `RUNTIME_${key}`
RuntimeKey(key) == "RUNTIME_" \o key

\* A field of a configuration object that may leave it out.
Field(obj, name) == IF name \in DOMAIN obj THEN obj[name] ELSE Undefined

EmptyEnv == [k \in {} |-> ""]

-----------------------------------------------------------------------------
(* Inputs: names and values of the process environment                     *)

SelectorKeys == {"APP_ENV", "STAGE", "NODE_ENV"}
EnvKeys == SelectorKeys \cup {"NEXTAUTH_URL", "RUNTIME_NEXTAUTH_URL"}

\* Names an operator may give the selector variables: one with an entry in
\* the configurations below, one with none, and one that is a property of
\* Object.prototype ("production" is what an unset selector yields).
SelectorValues == {"", "development", "qa", "constructor"}
UrlValues == {"", "https://a", "ftp://b"}

\* Values of DEBUG: the one that enables tracing and one that does not.
DebugValues == {"true", "1"}

ValuesOf(key) ==
    IF key \in SelectorKeys THEN SelectorValues
    ELSE IF key = "DEBUG" THEN DebugValues
    ELSE UrlValues

\* The process environments over `keys` with at most MaxEnvVars names set.
Environments(keys) ==
    UNION { { e \in [D -> SelectorValues \cup UrlValues \cup DebugValues] :
                \A k \in D : e[k] \in ValuesOf(k) } :
            D \in { S \in SUBSET keys : Cardinality(S) <= MaxEnvVars } }

-----------------------------------------------------------------------------
(* Configuration objects                                                   *)

\* DEFAULT_ENVIRONMENTS: four names, each with empty vars.
DEFAULT_ENVIRONMENTS ==
    [n \in {"production", "development", "staging", "local"} |-> [vars |-> <<>>]]

\* The environments tables the configurations below are built from; each
\* maps production and development to the entries of its vars.
\*   1. the README's table: one URL per environment;
\*   2. an empty configured value;
\*   3. vars that name the default selector variable;
\*   4. vars that name a RUNTIME_-prefixed key ahead of the key it overrides.
EnvironmentsChoices ==
    { [production  |-> [vars |-> <<<<"NEXTAUTH_URL", "https://prod">>>>],
       development |-> [vars |-> <<<<"NEXTAUTH_URL", "https://dev">>>>]],
      [production  |-> [vars |-> <<<<"NEXTAUTH_URL", "">>>>],
       development |-> [vars |-> <<>>]],
      [production  |-> [vars |-> <<<<"APP_ENV", "development">>>>],
       development |-> [vars |-> <<<<"NEXTAUTH_URL", "https://dev">>>>]],
      [production  |-> [vars |-> <<<<"RUNTIME_NEXTAUTH_URL", "https://r">>,
                                   <<"NEXTAUTH_URL", "https://prod">>>>],
       development |-> [vars |-> <<>>]] }

VariablesChoices == { <<>>, <<"NEXTAUTH_URL">> }

\* The validate callbacks a configuration may supply.
Validators == { "exampleValidate" }

\* validate of examples/runtime-env.config.js: the message of the Error it
\* throws, or Undefined when it returns.
exampleValidate(env) ==
    LET required == <<"NEXTAUTH_URL">>
        missing  == SelectSeq(required, LAMBDA key : ~Truthy(Get(env, key)))
    IN  IF Len(missing) > 0
        THEN "Missing required environment variables: " \o missing[1]
        ELSE IF Truthy(Get(env, "NEXTAUTH_URL"))
                /\ ~StartsWith(env["NEXTAUTH_URL"], "http")
        THEN "NEXTAUTH_URL must be a valid URL"
        ELSE Undefined

\* Calling config.validate(env): what it throws, or Undefined.
CallValidate(validate, env) ==
    IF validate = "exampleValidate" THEN exampleValidate(env) ELSE Undefined

\* A RuntimeEnvConfig: every field is optional.
Optional(fieldName, choices) ==
    { [f \in {} |-> Undefined] } \cup { [f \in {fieldName} |-> c] : c \in choices }

Merge(a, b) ==
    [f \in DOMAIN a \cup DOMAIN b |-> IF f \in DOMAIN b THEN b[f] ELSE a[f]]

Configs ==
    { Merge(Merge(e, v), Merge(s, c)) :
        e \in Optional("environments", EnvironmentsChoices),
        v \in Optional("variables", VariablesChoices),
        s \in Optional("envSelector", {"STAGE"}),
        c \in Optional("validate", Validators) }

-----------------------------------------------------------------------------
(* The library: src/src/index.ts                                           *)

\* Mutant of getCurrentEnvironment: APP_ENV is consulted even when another
\* selector is configured.
getCurrentEnvironmentAppEnv(env, envSelector) ==
    LET selector == IF envSelector = Undefined THEN "APP_ENV" ELSE envSelector
    IN  IF Truthy(Get(env, selector)) THEN env[selector]
        ELSE IF Truthy(Get(env, "APP_ENV")) THEN env["APP_ENV"]
        ELSE IF Truthy(Get(env, "NODE_ENV")) THEN env["NODE_ENV"]
        ELSE "production"

\* getCurrentEnvironment(envSelector = 'APP_ENV')
getCurrentEnvironment(env, envSelector) ==
    LET selector == IF envSelector = Undefined THEN "APP_ENV" ELSE envSelector
    IN  IF Truthy(Get(env, selector)) THEN env[selector]
        ELSE IF Truthy(Get(env, "NODE_ENV")) THEN env["NODE_ENV"]
        ELSE "production"

\* The names every object literal inherits from Object.prototype: obj[name]
\* yields the inherited function (or, for __proto__, the prototype), which
\* is truthy and has no vars.
ObjectPrototypeKeys ==
    { "constructor", "toString", "valueOf", "hasOwnProperty", "__proto__",
      "isPrototypeOf", "propertyIsEnumerable", "toLocaleString" }

\* environments[currentEnv]: the entry, an inherited property, or undefined.
LookupEnvironment(environments, currentEnv) ==
    IF currentEnv \in DOMAIN environments
    THEN [kind |-> "entry", vars |-> environments[currentEnv].vars]
    ELSE IF currentEnv \in ObjectPrototypeKeys
    THEN [kind |-> "inherited", vars |-> <<>>]
    ELSE [kind |-> "undefined", vars |-> <<>>]

\* Mutant of ApplyVars: a non-empty configured value is preferred to the
\* RUNTIME_ override.
RECURSIVE ApplyVarsConfiguredFirst(_, _, _)
ApplyVarsConfiguredFirst(entries, env, runtimeEnv) ==
    IF entries = <<>> THEN runtimeEnv
    ELSE LET key        == Head(entries)[1]
             value      == Head(entries)[2]
             runtimeKey == RuntimeKey(key)
         IN  ApplyVarsConfiguredFirst(Tail(entries), env,
                 IF value = "" /\ Truthy(Get(env, runtimeKey))
                 THEN Put(runtimeEnv, key, env[runtimeKey])
                 ELSE Put(runtimeEnv, key, value))

\* Mutant of ApplyVars: the override is looked up in the mapping being
\* built, as the bootstrap's loop does on the live process.env.
RECURSIVE ApplyVarsReadsResult(_, _, _)
ApplyVarsReadsResult(entries, env, runtimeEnv) ==
    IF entries = <<>> THEN runtimeEnv
    ELSE LET key        == Head(entries)[1]
             value      == Head(entries)[2]
             runtimeKey == RuntimeKey(key)
         IN  ApplyVarsReadsResult(Tail(entries), env,
                 IF Truthy(Get(runtimeEnv, runtimeKey))
                 THEN Put(runtimeEnv, key, runtimeEnv[runtimeKey])
                 ELSE Put(runtimeEnv, key, value))

\* Object.entries(envConfig.vars).forEach(...): each override is read from
\* process.env and written to the copy runtimeEnv.
RECURSIVE ApplyVars(_, _, _)
ApplyVars(entries, env, runtimeEnv) ==
    IF entries = <<>> THEN runtimeEnv
    ELSE LET key        == Head(entries)[1]
             value      == Head(entries)[2]
             runtimeKey == RuntimeKey(key)
         IN  ApplyVars(Tail(entries), env,
                 IF Truthy(Get(env, runtimeKey))
                 THEN Put(runtimeEnv, key, env[runtimeKey])
                 ELSE Put(runtimeEnv, key, value))

\* Mutant of ApplyVariables: a listed name without a RUNTIME_ override is
\* emptied.
RECURSIVE ApplyVariablesClearsUnset(_, _, _)
ApplyVariablesClearsUnset(variables, env, runtimeEnv) ==
    IF variables = <<>> THEN runtimeEnv
    ELSE LET varName    == Head(variables)
             runtimeKey == RuntimeKey(varName)
         IN  ApplyVariablesClearsUnset(Tail(variables), env,
                 IF Truthy(Get(env, runtimeKey))
                 THEN Put(runtimeEnv, varName, env[runtimeKey])
                 ELSE Put(runtimeEnv, varName, ""))

\* variables.forEach(...): only a set, non-empty RUNTIME_ variable is copied.
RECURSIVE ApplyVariables(_, _, _)
ApplyVariables(variables, env, runtimeEnv) ==
    IF variables = <<>> THEN runtimeEnv
    ELSE LET varName    == Head(variables)
             runtimeKey == RuntimeKey(varName)
         IN  ApplyVariables(Tail(variables), env,
                 IF Truthy(Get(env, runtimeKey))
                 THEN Put(runtimeEnv, varName, env[runtimeKey])
                 ELSE runtimeEnv)

\* What a call returns or throws.  aliased: the value returned is the
\* process.env object itself, not a copy.
Returned(value, aliased) ==
    [outcome |-> "return", value |-> value, error |-> Undefined, aliased |-> aliased]
Thrown(error) ==
    [outcome |-> "throw", value |-> EmptyEnv, error |-> error, aliased |-> FALSE]

\* A completed call of resolveRuntimeEnv: how it ended, the process
\* environment it leaves (env), and the mappings validate was called with,
\* in order (validated).
Completed(result, env, validated) ==
    [outcome |-> result.outcome, value |-> result.value,
     error |-> result.error, aliased |-> result.aliased,
     env |-> env, validated |-> validated]

\* Mutant of resolveRuntimeEnv: the catch block logs the validation error
\* and does not rethrow it.
resolveRuntimeEnvSwallows(cfg, env) ==
    LET environments == IF "environments" \in DOMAIN cfg
                        THEN cfg.environments ELSE DEFAULT_ENVIRONMENTS
        variables    == IF "variables" \in DOMAIN cfg THEN cfg.variables ELSE <<>>
        envSelector  == IF "envSelector" \in DOMAIN cfg
                        THEN cfg.envSelector ELSE "APP_ENV"
        currentEnv   == getCurrentEnvironment(env, envSelector)
        envConfig    == LookupEnvironment(environments, currentEnv)
        runtimeEnv   == ApplyVariables(variables, env,
                            ApplyVars(envConfig.vars, env, env))
        validated    == IF "validate" \in DOMAIN cfg THEN <<runtimeEnv>> ELSE <<>>
    IN  IF envConfig.kind = "undefined"
        THEN Completed(Returned(env, TRUE), env, <<>>)
        ELSE IF envConfig.kind = "inherited"
        THEN Completed(
                 Thrown("TypeError: Cannot convert undefined or null to object"),
                 env, <<>>)
        ELSE Completed(Returned(runtimeEnv, FALSE), env, validated)

\* Mutant of resolveRuntimeEnv: the overrides are written to process.env
\* itself, as the bootstrap's resolver does, not to a copy.
resolveRuntimeEnvInPlace(cfg, env) ==
    LET environments == IF "environments" \in DOMAIN cfg
                        THEN cfg.environments ELSE DEFAULT_ENVIRONMENTS
        variables    == IF "variables" \in DOMAIN cfg THEN cfg.variables ELSE <<>>
        envSelector  == IF "envSelector" \in DOMAIN cfg
                        THEN cfg.envSelector ELSE "APP_ENV"
        validate     == Field(cfg, "validate")
        currentEnv   == getCurrentEnvironment(env, envSelector)
        envConfig    == LookupEnvironment(environments, currentEnv)
        runtimeEnv   == ApplyVariables(variables, env,
                            ApplyVars(envConfig.vars, env, env))
        error        == CallValidate(validate, runtimeEnv)
        validated    == IF validate # Undefined THEN <<runtimeEnv>> ELSE <<>>
    IN  IF envConfig.kind = "undefined"
        THEN Completed(Returned(env, TRUE), env, <<>>)
        ELSE IF envConfig.kind = "inherited"
        THEN Completed(
                 Thrown("TypeError: Cannot convert undefined or null to object"),
                 env, <<>>)
        ELSE IF validate # Undefined /\ error # Undefined
        THEN Completed(Thrown(error), runtimeEnv, validated)
        ELSE Completed(Returned(runtimeEnv, TRUE), runtimeEnv, validated)

\* Mutant of resolveRuntimeEnv: validate is called on the mapping before
\* the config.variables overrides are applied.
resolveRuntimeEnvValidatesEarly(cfg, env) ==
    LET environments == IF "environments" \in DOMAIN cfg
                        THEN cfg.environments ELSE DEFAULT_ENVIRONMENTS
        variables    == IF "variables" \in DOMAIN cfg THEN cfg.variables ELSE <<>>
        envSelector  == IF "envSelector" \in DOMAIN cfg
                        THEN cfg.envSelector ELSE "APP_ENV"
        validate     == Field(cfg, "validate")
        currentEnv   == getCurrentEnvironment(env, envSelector)
        envConfig    == LookupEnvironment(environments, currentEnv)
        early        == ApplyVars(envConfig.vars, env, env)
        runtimeEnv   == ApplyVariables(variables, env, early)
        error        == CallValidate(validate, early)
        validated    == IF validate # Undefined THEN <<early>> ELSE <<>>
    IN  IF envConfig.kind = "undefined"
        THEN Completed(Returned(env, TRUE), env, <<>>)
        ELSE IF envConfig.kind = "inherited"
        THEN Completed(
                 Thrown("TypeError: Cannot convert undefined or null to object"),
                 env, <<>>)
        ELSE IF validate # Undefined /\ error # Undefined
        THEN Completed(Thrown(error), env, validated)
        ELSE Completed(Returned(runtimeEnv, FALSE), env, validated)

\* resolveRuntimeEnv(config) on the process environment env.
resolveRuntimeEnv(cfg, env) ==
    LET environments == IF "environments" \in DOMAIN cfg
                        THEN cfg.environments ELSE DEFAULT_ENVIRONMENTS
        variables    == IF "variables" \in DOMAIN cfg THEN cfg.variables ELSE <<>>
        envSelector  == IF "envSelector" \in DOMAIN cfg
                        THEN cfg.envSelector ELSE "APP_ENV"
        validate     == Field(cfg, "validate")
        currentEnv   == getCurrentEnvironment(env, envSelector)
        envConfig    == LookupEnvironment(environments, currentEnv)
        runtimeEnv   == ApplyVariables(variables, env,
                            ApplyVars(envConfig.vars, env, env))
        error        == CallValidate(validate, runtimeEnv)
        validated    == IF validate # Undefined THEN <<runtimeEnv>> ELSE <<>>
    IN  IF envConfig.kind = "undefined"
        THEN Completed(Returned(env, TRUE), env, <<>>)
        ELSE IF envConfig.kind = "inherited"
        THEN Completed(
                 Thrown("TypeError: Cannot convert undefined or null to object"),
                 env, <<>>)
        ELSE IF validate # Undefined /\ error # Undefined
        THEN Completed(Thrown(error), env, validated)
        ELSE Completed(Returned(runtimeEnv, FALSE), env, validated)

\* Mutant of WriteBack: a RUNTIME_ variable that is set is emptied once the
\* mapping has been written.
WriteBackClearsOverrides(env, runtimeEnv) ==
    [k \in DOMAIN env \cup DOMAIN runtimeEnv |->
        IF k \in DOMAIN env /\ StartsWith(k, "RUNTIME_") THEN ""
        ELSE IF k \in DOMAIN runtimeEnv /\ runtimeEnv[k] # Undefined
        THEN runtimeEnv[k] ELSE env[k]]

\* Mutant of WriteBack: only names that process.env already has are assigned.
WriteBackExistingOnly(env, runtimeEnv) ==
    [k \in DOMAIN env |->
        IF k \in DOMAIN runtimeEnv /\ runtimeEnv[k] # Undefined
        THEN runtimeEnv[k] ELSE env[k]]

\* The writes of patchProcessEnv: every entry of runtimeEnv whose value is
\* not undefined is assigned to process.env.
WriteBack(env, runtimeEnv) ==
    [k \in DOMAIN env \cup DOMAIN runtimeEnv |->
        IF k \in DOMAIN runtimeEnv /\ runtimeEnv[k] # Undefined
        THEN runtimeEnv[k] ELSE env[k]]

\* patchProcessEnv(config): the process environment it leaves, and how the
\* call ends.
patchProcessEnv(cfg, env) ==
    LET r == resolveRuntimeEnv(cfg, env)
    IN  IF r.outcome = "throw"
        THEN [env |-> r.env, outcome |-> "throw", error |-> r.error]
        ELSE [env |-> WriteBack(r.env, r.value), outcome |-> "return",
              error |-> Undefined]

\* Mutant of runtimeEnvMiddleware: next() is called first, then
\* patchProcessEnv(config).
runtimeEnvMiddlewareNextFirst(cfg, env) ==
    LET patched == patchProcessEnv(cfg, env)
    IN  [env |-> patched.env, outcome |-> patched.outcome,
         error |-> patched.error,
         nextCalls |-> 1, envAtNext |-> env]

\* The handler runtimeEnvMiddleware(config) returns, run for one request:
\* patchProcessEnv(config), then next().  An exception leaves the handler
\* before next() is called.  envAtNext: the process environment when next()
\* is called (empty when it is not).
runtimeEnvMiddleware(cfg, env) ==
    LET patched == patchProcessEnv(cfg, env)
    IN  [env |-> patched.env, outcome |-> patched.outcome,
         error |-> patched.error,
         nextCalls |-> IF patched.outcome = "return" THEN 1 ELSE 0,
         envAtNext |-> IF patched.outcome = "return" THEN patched.env
                       ELSE EmptyEnv]

\* Mutant of withRuntimeEnv: nextConfig.env is spread after the resolved
\* mapping, so the build-time value wins.
withRuntimeEnvBuildWins(nextConfig, cfg, env, serverSide) ==
    LET patched  == IF serverSide THEN patchProcessEnv(cfg, env)
                    ELSE [env |-> env, outcome |-> "return", error |-> Undefined]
        resolved == resolveRuntimeEnv(cfg, patched.env)
        nextEnv  == IF "env" \in DOMAIN nextConfig THEN nextConfig.env ELSE EmptyEnv
    IN  IF patched.outcome = "throw"
        THEN [env |-> patched.env, outcome |-> "throw", error |-> patched.error,
              nextConfig |-> nextConfig, result |-> [f \in {} |-> Undefined]]
        ELSE IF resolved.outcome = "throw"
        THEN [env |-> resolved.env, outcome |-> "throw", error |-> resolved.error,
              nextConfig |-> nextConfig, result |-> [f \in {} |-> Undefined]]
        ELSE [env |-> resolved.env, outcome |-> "return", error |-> Undefined,
              nextConfig |-> nextConfig,
              result |-> Merge(nextConfig,
                               [env |-> Merge(resolved.value, nextEnv)])]

\* withRuntimeEnv(nextConfig, config).  serverSide: globalThis has no window.
\* The process environment it leaves, how it ends, nextConfig as the call
\* leaves it, and the object returned.
withRuntimeEnv(nextConfig, cfg, env, serverSide) ==
    LET patched  == IF serverSide THEN patchProcessEnv(cfg, env)
                    ELSE [env |-> env, outcome |-> "return", error |-> Undefined]
        resolved == resolveRuntimeEnv(cfg, patched.env)
        nextEnv  == IF "env" \in DOMAIN nextConfig THEN nextConfig.env ELSE EmptyEnv
    IN  IF patched.outcome = "throw"
        THEN [env |-> patched.env, outcome |-> "throw", error |-> patched.error,
              nextConfig |-> nextConfig, result |-> [f \in {} |-> Undefined]]
        ELSE IF resolved.outcome = "throw"
        THEN [env |-> resolved.env, outcome |-> "throw", error |-> resolved.error,
              nextConfig |-> nextConfig, result |-> [f \in {} |-> Undefined]]
        ELSE [env |-> resolved.env, outcome |-> "return", error |-> Undefined,
              nextConfig |-> nextConfig,
              result |-> Merge(nextConfig,
                               [env |-> Merge(nextEnv, resolved.value)])]

-----------------------------------------------------------------------------
(* The host program calling the library                                    *)

\* The call made last: op, the process environment before it (pre), how it
\* ended, and what it returned (name or value) or threw (error).  again: it
\* is a patchProcessEnv that directly follows another, which started from
\* the process environment `before`; or a resolveRuntimeEnv that follows
\* another, which returned `earlier`, with a write to process.env between
\* the two.  held: the mapping the caller holds, as it is now; write: the
\* write the caller has made since the call.  request: the call is made by
\* the middleware for a request, which called next() nextCalls times, with
\* the process environment envAtNext.
\* nextConfig, serverSide, nextConfigAfter, result: the arguments of
\* withRuntimeEnv, the first as the call leaves it, and the object
\* returned.  NoCall: none yet.
NoCall ==
    [op |-> "none", again |-> FALSE, before |-> EmptyEnv, pre |-> EmptyEnv, arg |-> Undefined,
     outcome |-> "none", name |-> Undefined, value |-> EmptyEnv,
     error |-> Undefined, aliased |-> FALSE, validated |-> <<>>,
     held |-> EmptyEnv, write |-> "none", earlier |-> EmptyEnv,
     request |-> FALSE, nextCalls |-> 0, envAtNext |-> EmptyEnv,
     nextConfig |-> [f \in {} |-> Undefined], serverSide |-> FALSE,
     nextConfigAfter |-> [f \in {} |-> Undefined],
     result |-> [f \in {} |-> Undefined]]

\* The envSelector arguments getCurrentEnvironment is called with: none
\* (its default applies), the default spelled out, and a custom selector.
SelectorArgs == { Undefined, "APP_ENV", "STAGE" }

\* A configuration file as require() finds it: missing, broken (it exists
\* and fails to load) or loaded, with the object it exports.  For --config,
\* noflag: the flag is not given.
NoExports == [f \in {} |-> Undefined]
ConfigFile(state, exports) == [state |-> state, exports |-> exports]

\* The bootstrap script is not running.
BootIdle ==
    /\ pc = "library"
    /\ argFile = ConfigFile("noflag", NoExports)
    /\ localFile = ConfigFile("missing", NoExports)
    /\ envAtStart = EmptyEnv
    /\ log = <<>>

Init ==
    /\ processEnv \in Environments(EnvKeys)
    /\ config \in Configs
    /\ last = NoCall
    /\ BootIdle

\* const currentEnv = getCurrentEnvironment(envSelector)
CallGetCurrentEnvironment ==
    /\ pc = "library"
    /\ \E envSelector \in SelectorArgs :
         last' = [NoCall EXCEPT
                    !.op = "getCurrentEnvironment",
                    !.pre = processEnv, !.arg = envSelector,
                    !.outcome = "return",
                    !.name = getCurrentEnvironment(processEnv, envSelector)]
    /\ UNCHANGED <<processEnv, config, pc, argFile, localFile, envAtStart, log>>

\* The call follows a resolveRuntimeEnv that returned, and a write to
\* process.env made since.
ResolvedAgain ==
    /\ last.op = "resolveRuntimeEnv"
    /\ last.outcome = "return"
    /\ last.write = "processEnv"

\* Mutant of CallResolveRuntimeEnv: the mapping computed by the first call
\* is remembered and returned by the calls that follow.
CallResolveRuntimeEnvMemoized ==
    /\ pc = "library"
    /\ LET r == IF last.op = "resolveRuntimeEnv" /\ last.outcome = "return"
                THEN Completed(Returned(last.value, FALSE), processEnv, <<>>)
                ELSE resolveRuntimeEnv(config, processEnv)
       IN  /\ processEnv' = r.env
           /\ last' = [NoCall EXCEPT
                         !.op = "resolveRuntimeEnv",
                         !.again = ResolvedAgain,
                         !.earlier = IF ResolvedAgain THEN last.value ELSE EmptyEnv,
                         !.pre = processEnv, !.outcome = r.outcome,
                         !.value = r.value, !.error = r.error,
                         !.aliased = r.aliased, !.validated = r.validated,
                         !.held = r.value]
    /\ UNCHANGED <<config, pc, argFile, localFile, envAtStart, log>>

\* const resolved = resolveRuntimeEnv(config)
CallResolveRuntimeEnv ==
    /\ pc = "library"
    /\ LET r == resolveRuntimeEnv(config, processEnv)
       IN  /\ processEnv' = r.env
           /\ last' = [NoCall EXCEPT
                         !.op = "resolveRuntimeEnv",
                         !.again = ResolvedAgain,
                         !.earlier = IF ResolvedAgain THEN last.value ELSE EmptyEnv,
                         !.pre = processEnv, !.outcome = r.outcome,
                         !.value = r.value, !.error = r.error,
                         !.aliased = r.aliased, !.validated = r.validated,
                         !.held = r.value]
    /\ UNCHANGED <<config, pc, argFile, localFile, envAtStart, log>>

\* The call directly follows a patchProcessEnv, with no write between.
PatchedAgain == last.op = "patchProcessEnv" /\ last.write = "none"

\* patchProcessEnv(config)
CallPatchProcessEnv ==
    /\ pc = "library"
    /\ LET r == patchProcessEnv(config, processEnv)
       IN  /\ processEnv' = r.env
           /\ last' = [NoCall EXCEPT
                         !.op = "patchProcessEnv",
                         !.again = PatchedAgain,
                         !.before = IF PatchedAgain THEN last.pre ELSE EmptyEnv,
                         !.pre = processEnv, !.outcome = r.outcome,
                         !.error = r.error]
    /\ UNCHANGED <<config, pc, argFile, localFile, envAtStart, log>>

Next ==
    \/ CallGetCurrentEnvironment
    \/ CallResolveRuntimeEnv
    \/ CallPatchProcessEnv

Spec == Init /\ [][Next]_vars

-----------------------------------------------------------------------------
(* A host that also serves requests through the middleware, wraps its      *)
(* Next.js configuration and writes to the objects it holds                *)

\* The configurations of this host: the default selector and a
\* runtime-configurable NEXTAUTH_URL.
HostConfigs ==
    { c \in Configs : /\ "envSelector" \notin DOMAIN c
                      /\ "variables" \in DOMAIN c
                      /\ c.variables # <<>> }

\* The nextConfig objects given to withRuntimeEnv: without env, and with an
\* env that has a key resolution governs and one it does not.
NextConfigs ==
    { [output |-> "standalone"],
      [output |-> "standalone",
       env    |-> [NEXTAUTH_URL |-> "https://build", BUILD_ID |-> "b1"]] }

\* What the host assigns: obj[key] = value.
WriteKeys == { "RUNTIME_NEXTAUTH_URL" }
WriteValues == { "https://w" }

\* The names set in this host's process environment at start: the default
\* selector, the governed variable and its override.
HostEnvKeys == { "APP_ENV", "NEXTAUTH_URL", "RUNTIME_NEXTAUTH_URL" }

HostInit ==
    /\ processEnv \in Environments(HostEnvKeys)
    /\ config \in HostConfigs
    /\ last = NoCall
    /\ BootIdle

\* process.env[key] = value, by the host.  A mapping the host holds that is
\* the process.env object itself shows the write.
WriteProcessEnv ==
    /\ pc = "library"
    /\ last.write = "none"
    /\ \E key \in WriteKeys, value \in WriteValues :
         /\ processEnv' = Put(processEnv, key, value)
         /\ last' = [last EXCEPT
                        !.write = "processEnv",
                        !.held = IF last.aliased
                                 THEN Put(last.held, key, value) ELSE last.held]
    /\ UNCHANGED <<config, pc, argFile, localFile, envAtStart, log>>

\* resolved[key] = value, by the host, on the mapping resolveRuntimeEnv
\* returned.  If that mapping is the process.env object, process.env is
\* written.
WriteReturned ==
    /\ pc = "library"
    /\ last.op = "resolveRuntimeEnv"
    /\ last.outcome = "return"
    /\ last.write = "none"
    /\ \E key \in WriteKeys, value \in WriteValues :
         /\ last' = [last EXCEPT
                        !.write = "returned",
                        !.held = Put(last.held, key, value)]
         /\ processEnv' = IF last.aliased
                          THEN Put(processEnv, key, value) ELSE processEnv
    /\ UNCHANGED <<config, pc, argFile, localFile, envAtStart, log>>

\* app.use(runtimeEnvMiddleware(config)): a request reaches the handler.
HandleRequest ==
    /\ pc = "library"
    /\ LET r == runtimeEnvMiddleware(config, processEnv)
       IN  /\ processEnv' = r.env
           /\ last' = [NoCall EXCEPT
                         !.op = "patchProcessEnv",
                         !.request = TRUE,
                         !.again = PatchedAgain,
                         !.before = IF PatchedAgain THEN last.pre ELSE EmptyEnv,
                         !.pre = processEnv, !.outcome = r.outcome,
                         !.error = r.error, !.nextCalls = r.nextCalls,
                         !.envAtNext = r.envAtNext]
    /\ UNCHANGED <<config, pc, argFile, localFile, envAtStart, log>>

\* module.exports = withRuntimeEnv(nextConfig, config)
CallWithRuntimeEnv ==
    /\ pc = "library"
    /\ \E nextConfig \in NextConfigs, serverSide \in BOOLEAN :
         LET r == withRuntimeEnv(nextConfig, config, processEnv, serverSide)
         IN  /\ processEnv' = r.env
             /\ last' = [NoCall EXCEPT
                           !.op = "withRuntimeEnv",
                           !.pre = processEnv, !.outcome = r.outcome,
                           !.error = r.error,
                           !.nextConfig = nextConfig,
                           !.serverSide = serverSide,
                           !.nextConfigAfter = r.nextConfig,
                           !.result = r.result]
    /\ UNCHANGED <<config, pc, argFile, localFile, envAtStart, log>>

HostNext ==
    \/ CallGetCurrentEnvironment
    \/ CallResolveRuntimeEnv
    \/ CallPatchProcessEnv
    \/ WriteProcessEnv
    \/ WriteReturned
    \/ HandleRequest
    \/ CallWithRuntimeEnv

HostSpec == HostInit /\ [][HostNext]_vars

-----------------------------------------------------------------------------
(* Resolution under configurations with several vars and variables         *)

\* Configurations whose production vars have several entries, one of them a
\* RUNTIME_-prefixed key, and whose variables list has several names, with a
\* repeated name, names that are keys of the vars and names that are not.
OrderConfigs ==
    { [environments |-> [production |-> [vars |-> v]], variables |-> l] :
        v \in { << <<"RUNTIME_NEXTAUTH_URL", "https://r">>,
                   <<"NEXTAUTH_URL", "https://prod">>,
                   <<"NEXT_PUBLIC_API_URL", "https://api">> >>,
                << <<"NEXTAUTH_URL", "https://prod">>,
                   <<"NEXT_PUBLIC_API_URL", "">> >> },
        l \in { <<"NEXTAUTH_URL", "NEXT_PUBLIC_API_URL">>,
                <<"NEXT_PUBLIC_API_URL", "RUNTIME_NEXTAUTH_URL", "NEXTAUTH_URL">>,
                <<"DATABASE_URL", "NEXTAUTH_URL", "DATABASE_URL">> } }

OrderEnvKeys ==
    { "NEXTAUTH_URL", "RUNTIME_NEXTAUTH_URL", "RUNTIME_NEXT_PUBLIC_API_URL",
      "RUNTIME_DATABASE_URL", "RUNTIME_RUNTIME_NEXTAUTH_URL" }

OrderInit ==
    /\ processEnv \in Environments(OrderEnvKeys)
    /\ config \in OrderConfigs
    /\ last = NoCall
    /\ BootIdle

OrderNext ==
    \/ CallResolveRuntimeEnv
    \/ CallPatchProcessEnv

OrderSpec == OrderInit /\ [][OrderNext]_vars

-----------------------------------------------------------------------------
(* Properties of the library                                               *)

\* What the configuration in use gives resolveRuntimeEnv.
ConfigEnvironments ==
    IF "environments" \in DOMAIN config THEN config.environments
    ELSE DEFAULT_ENVIRONMENTS
ConfigVariables ==
    IF "variables" \in DOMAIN config THEN config.variables ELSE <<>>
ConfigSelector ==
    IF "envSelector" \in DOMAIN config THEN config.envSelector ELSE "APP_ENV"

\* Set and non-empty in the process environment env.
IsSet(env, key) == key \in DOMAIN env /\ env[key] # ""

\* The environment name that env selects: the selector variable, else
\* NODE_ENV, else production.
SelectedName(env) ==
    IF IsSet(env, ConfigSelector) THEN env[ConfigSelector]
    ELSE IF IsSet(env, "NODE_ENV") THEN env["NODE_ENV"]
    ELSE "production"

HasEntry(env) == SelectedName(env) \in DOMAIN ConfigEnvironments

\* The entries of the active environment's vars (none without an entry).
ActiveVars(env) ==
    IF HasEntry(env) THEN ConfigEnvironments[SelectedName(env)].vars ELSE <<>>

Range(seq) == { seq[i] : i \in 1..Len(seq) }

ResolveReturned == last.op = "resolveRuntimeEnv" /\ last.outcome = "return"

\* C1: when the selected environment has an entry, every key K of its vars
\* whose RUNTIME_K is set and non-empty in the process environment has
\* result[K] = RUNTIME_K in the mapping resolveRuntimeEnv returns, whatever
\* the configured value and the pre-existing value of K.
C1_RuntimeOverrideWins ==
    (ResolveReturned /\ HasEntry(last.pre)) =>
        \A entry \in Range(ActiveVars(last.pre)) :
            IsSet(last.pre, RuntimeKey(entry[1])) =>
                Get(last.value, entry[1]) = last.pre[RuntimeKey(entry[1])]

\* C1 witness: a returned resolution in which a key of the active vars has a
\* non-empty configured value, a different pre-existing value and a
\* different RUNTIME_ override.
C1_Witness ==
    /\ ResolveReturned /\ HasEntry(last.pre)
    /\ \E entry \in Range(ActiveVars(last.pre)) :
         /\ entry[2] # ""
         /\ IsSet(last.pre, entry[1])
         /\ IsSet(last.pre, RuntimeKey(entry[1]))
         /\ last.pre[RuntimeKey(entry[1])] \notin {entry[2], last.pre[entry[1]]}
         /\ last.value[entry[1]] = last.pre[RuntimeKey(entry[1])]

\* C2: for every key K of the active vars with RUNTIME_K absent or empty, a
\* non-empty configured value is the result, and an empty configured value
\* leaves result[K] as K was in the process environment (absent if absent).
C2_ConfiguredValueOrExisting ==
    (ResolveReturned /\ HasEntry(last.pre)) =>
        \A entry \in Range(ActiveVars(last.pre)) :
            ~IsSet(last.pre, RuntimeKey(entry[1])) =>
                Get(last.value, entry[1]) =
                    IF entry[2] # "" THEN entry[2] ELSE Get(last.pre, entry[1])

\* C3: getCurrentEnvironment returns the selector variable's value when set
\* and non-empty, else NODE_ENV's when set and non-empty, else "production";
\* with a custom selector APP_ENV plays no part; the name is returned
\* without an error whether or not config.environments has it.
C3_SelectionOrder ==
    last.op = "getCurrentEnvironment" =>
        LET selector == IF last.arg = Undefined THEN "APP_ENV" ELSE last.arg
            withoutAppEnv ==
                [k \in DOMAIN last.pre \ {"APP_ENV"} |-> last.pre[k]]
        IN  /\ last.outcome = "return"
            /\ IsSet(last.pre, selector) => last.name = last.pre[selector]
            /\ (~IsSet(last.pre, selector) /\ IsSet(last.pre, "NODE_ENV")) =>
                   last.name = last.pre["NODE_ENV"]
            /\ (~IsSet(last.pre, selector) /\ ~IsSet(last.pre, "NODE_ENV")) =>
                   last.name = "production"
            /\ selector # "APP_ENV" =>
                   last.name = getCurrentEnvironment(withoutAppEnv, last.arg)

\* C3 witness: a custom selector that is unset, APP_ENV set, and the name
\* taken from NODE_ENV, a name config.environments does not have.
C3_Witness ==
    /\ last.op = "getCurrentEnvironment"
    /\ last.arg = "STAGE"
    /\ IsSet(last.pre, "APP_ENV")
    /\ IsSet(last.pre, "NODE_ENV")
    /\ last.pre["APP_ENV"] # last.pre["NODE_ENV"]
    /\ last.name = last.pre["NODE_ENV"]
    /\ last.name \notin DOMAIN ConfigEnvironments

CallReturned(op) == last.op = op /\ last.outcome = "return"

\* C4: when the selected name has no entry in config.environments,
\* resolveRuntimeEnv raises nothing and returns the keys and values of the
\* process environment, with RUNTIME_ variables set and with validate
\* supplied alike, and patchProcessEnv leaves the process environment as it
\* was.
C4_NoEntryIsIdentity ==
    (last.op \in {"resolveRuntimeEnv", "patchProcessEnv"} /\ ~HasEntry(last.pre)) =>
        /\ last.outcome = "return"
        /\ last.op = "resolveRuntimeEnv" => last.value = last.pre
        /\ last.op = "patchProcessEnv" => processEnv = last.pre

\* The mapping resolution builds from env for the active environment, and
\* what config.validate throws when given it (Undefined: nothing, or no
\* validate, or no entry).
ResolvedMapping(env) ==
    ApplyVariables(ConfigVariables, env, ApplyVars(ActiveVars(env), env, env))
ValidationError(env) ==
    IF HasEntry(env) /\ "validate" \in DOMAIN config
    THEN CallValidate(config.validate, ResolvedMapping(env))
    ELSE Undefined

\* C5: if config.validate raises for the resolved mapping, resolveRuntimeEnv
\* raises that error and returns no mapping, and patchProcessEnv raises it
\* and leaves every key of the process environment as it was.
C5_ValidationFailurePropagates ==
    ValidationError(last.pre) # Undefined =>
        /\ last.op = "resolveRuntimeEnv" =>
              /\ last.outcome = "throw"
              /\ last.error = ValidationError(last.pre)
              /\ last.value = EmptyEnv
        /\ last.op = "patchProcessEnv" =>
              /\ last.outcome = "throw"
              /\ last.error = ValidationError(last.pre)
              /\ processEnv = last.pre

\* C5 witness: patchProcessEnv raised the validator's error for a mapping
\* that differs from the process environment, which is as it was.
C5_Witness ==
    /\ last.op = "patchProcessEnv"
    /\ last.outcome = "throw"
    /\ last.error = "NEXTAUTH_URL must be a valid URL"
    /\ ResolvedMapping(last.pre) # last.pre
    /\ processEnv = last.pre

\* C6: a patchProcessEnv that directly follows a patchProcessEnv with the
\* same configuration leaves the process environment as the first left it,
\* for every configuration.
C6_PatchIdempotent ==
    (last.op = "patchProcessEnv" /\ last.again) => processEnv = last.pre

\* The names resolution may write from env, and the names it reads.
WrittenNames(env) ==
    IF HasEntry(env)
    THEN { entry[1] : entry \in Range(ActiveVars(env)) } \cup Range(ConfigVariables)
    ELSE {}
ReadNames(env) ==
    {ConfigSelector, "NODE_ENV"} \cup { RuntimeKey(k) : k \in WrittenNames(env) }

\* C6 as amended: the second of two successive patchProcessEnv calls changes
\* nothing, provided that no key of the vars active at the first call and no
\* name in config.variables is the selector variable, NODE_ENV, or RUNTIME_K
\* for a K among those keys and names.
C6_PatchIdempotentAmended ==
    (/\ last.op = "patchProcessEnv"
     /\ last.again
     /\ WrittenNames(last.before) \cap ReadNames(last.before) = {}) =>
        processEnv = last.pre

\* C6 witness: two successive patches under such a configuration, the first
\* of which changed the process environment and the second did not.
C6_Witness ==
    /\ last.op = "patchProcessEnv"
    /\ last.again
    /\ last.outcome = "return"
    /\ WrittenNames(last.before) \cap ReadNames(last.before) = {}
    /\ last.pre # last.before
    /\ processEnv = last.pre

\* C7: for every name X in config.variables with RUNTIME_X set and
\* non-empty, the resolved value of X, and the value of X in the process
\* environment after patching, is RUNTIME_X, whatever environment name is
\* selected and whether or not it has an entry.
C7_VariablesOverrideAlways ==
    \A X \in Range(ConfigVariables) :
        IsSet(last.pre, RuntimeKey(X)) =>
            /\ CallReturned("resolveRuntimeEnv") =>
                  Get(last.value, X) = last.pre[RuntimeKey(X)]
            /\ CallReturned("patchProcessEnv") =>
                  Get(processEnv, X) = last.pre[RuntimeKey(X)]

\* The keys of the active environment's vars.
ActiveKeys(env) == { entry[1] : entry \in Range(ActiveVars(env)) }

\* The effective mapping for env: what resolution builds when the selected
\* name has an entry, env as it is otherwise.
Effective(env) == IF HasEntry(env) THEN ResolvedMapping(env) ELSE env

\* C11: the mapping resolveRuntimeEnv returns has every key of the process
\* environment, and a key X differs from its process value only if X is a
\* key of the active vars, or X is in config.variables and RUNTIME_X is set
\* and non-empty.
C11_OnlyDirectedKeysChange ==
    ResolveReturned =>
        /\ DOMAIN last.pre \subseteq DOMAIN last.value
        /\ \A X \in DOMAIN last.value :
              Get(last.value, X) # Get(last.pre, X) =>
                 \/ X \in ActiveKeys(last.pre)
                 \/ X \in Range(ConfigVariables) /\ IsSet(last.pre, RuntimeKey(X))

\* C11 witness: a name of config.variables that is set, has no RUNTIME_
\* override and is no key of the active vars keeps its value in the result.
C11_Witness ==
    /\ ResolveReturned /\ HasEntry(last.pre)
    /\ \E X \in Range(ConfigVariables) \ ActiveKeys(last.pre) :
         /\ IsSet(last.pre, X)
         /\ ~IsSet(last.pre, RuntimeKey(X))
         /\ last.value[X] = last.pre[X]

\* C12: when patchProcessEnv returns, the process environment is the
\* effective mapping computed from the process environment before the call:
\* every key of that mapping holds its value, and no key that was present is
\* deleted.
C12_PatchWritesEffectiveMapping ==
    CallReturned("patchProcessEnv") =>
        /\ \A k \in DOMAIN Effective(last.pre) :
              Get(processEnv, k) = Effective(last.pre)[k]
        /\ DOMAIN processEnv = DOMAIN Effective(last.pre)
        /\ DOMAIN last.pre \subseteq DOMAIN processEnv

\* C12 witness: a patch that added a key and overwrote another.
C12_Witness ==
    /\ CallReturned("patchProcessEnv")
    /\ DOMAIN processEnv # DOMAIN last.pre
    /\ \E k \in DOMAIN last.pre : processEnv[k] # last.pre[k]

\* C13: a resolveRuntimeEnv call, returning or raising, changes neither the
\* process environment nor the configuration object; a step that changes
\* the process environment is a patchProcessEnv.
C13_ResolveIsPreview ==
    [][/\ last'.op = "resolveRuntimeEnv" =>
              (processEnv' = processEnv /\ config' = config)
       /\ processEnv' # processEnv => last'.op = "patchProcessEnv"]_vars

\* C13 witness: a resolution that returned a mapping different from the
\* process environment, which is as it was before the call.
C13_Witness ==
    /\ ResolveReturned
    /\ last.value # last.pre
    /\ processEnv = last.pre

\* C19: with validate supplied and an entry selected, resolveRuntimeEnv calls
\* validate exactly once, with the mapping that has every active-vars entry
\* and every config.variables override applied, which is the mapping
\* returned when validate does not raise.
C19_ValidateOnceOnFinalMapping ==
    (/\ last.op = "resolveRuntimeEnv"
     /\ "validate" \in DOMAIN config
     /\ HasEntry(last.pre)) =>
        /\ Len(last.validated) = 1
        /\ last.validated[1] = ResolvedMapping(last.pre)
        /\ last.outcome = "return" => last.value = last.validated[1]

\* C19 witness: validate was given, and accepted, a mapping in which a
\* config.variables override is applied on top of the active vars.
C19_Witness ==
    /\ ResolveReturned
    /\ "validate" \in DOMAIN config
    /\ HasEntry(last.pre)
    /\ Len(last.validated) = 1
    /\ last.validated[1] # ApplyVars(ActiveVars(last.pre), last.pre, last.pre)
    /\ last.value = last.validated[1]

\* C14: resolution runs once, at startup, and never per request: handling a
\* request performs no resolve/patch operation, so the number of such
\* operations does not grow with the requests handled; this for the
\* runtimeEnvMiddleware request middleware as for the bootstrap.
C14_NoResolutionPerRequest ==
    last.request => last.op \notin {"resolveRuntimeEnv", "patchProcessEnv"}

\* C17: the mapping resolveRuntimeEnv returns is a copy distinct from the
\* process environment, also when the selected name has no entry: a write by
\* the caller to the returned mapping leaves the process environment as it
\* was, and a write to the process environment leaves the returned mapping
\* as it was returned.
C17_ReturnedMappingIsFresh ==
    ResolveReturned =>
        /\ last.write = "returned" => processEnv = last.pre
        /\ last.write = "processEnv" => last.held = last.value

\* C18: every resolveRuntimeEnv call returns the mapping determined by the
\* configuration and the process environment as it is at that call (equal
\* inputs give equal results), also after writes to the process environment
\* since an earlier call; nothing is remembered from that call.
C18_ResolutionUncached ==
    ResolveReturned => last.value = Effective(last.pre)

\* C18 witness: a resolution after an earlier one and a write between them,
\* returning a mapping different from the earlier one.
C18_Witness ==
    /\ ResolveReturned
    /\ last.again
    /\ last.value # last.earlier
    /\ last.value = Effective(processEnv)

\* nextConfig.env, empty when nextConfig has none.
NextEnv(nextConfig) ==
    IF "env" \in DOMAIN nextConfig THEN nextConfig.env ELSE EmptyEnv

\* C20: withRuntimeEnv(nextConfig, config) returns an object with every field
\* of nextConfig other than env as it was, and an env with every key of
\* nextConfig.env and of the resolved mapping, the resolved value winning;
\* server-side the process environment is patched before that mapping is
\* computed; nextConfig is as it was.  (Stated of the state the call leaves,
\* before any later write by the host.)
C20_WithRuntimeEnvMerges ==
    (CallReturned("withRuntimeEnv") /\ last.write = "none") =>
        LET resolved == Effective(processEnv)
            nextEnv  == NextEnv(last.nextConfig)
        IN  /\ DOMAIN last.result = DOMAIN last.nextConfig \cup {"env"}
            /\ \A f \in DOMAIN last.nextConfig \ {"env"} :
                  last.result[f] = last.nextConfig[f]
            /\ DOMAIN last.result.env = DOMAIN nextEnv \cup DOMAIN resolved
            /\ \A k \in DOMAIN last.result.env :
                  last.result.env[k] =
                      IF k \in DOMAIN resolved THEN resolved[k] ELSE nextEnv[k]
            /\ processEnv =
                  IF last.serverSide THEN Effective(last.pre) ELSE last.pre
            /\ last.nextConfigAfter = last.nextConfig

\* C20 witness: a server-side call that patched the process environment and
\* returned an env in which a resolved value replaced the one of
\* nextConfig.env and another key of nextConfig.env was kept.
C20_Witness ==
    /\ CallReturned("withRuntimeEnv")
    /\ last.serverSide
    /\ processEnv # last.pre
    /\ "NEXTAUTH_URL" \in DOMAIN NextEnv(last.nextConfig)
    /\ "NEXTAUTH_URL" \in DOMAIN processEnv
    /\ last.result.env["NEXTAUTH_URL"] = processEnv["NEXTAUTH_URL"]
    /\ last.result.env["NEXTAUTH_URL"] # last.nextConfig.env["NEXTAUTH_URL"]
    /\ last.result.env["BUILD_ID"] = "b1"

\* C21: for a request given to the middleware's handler, next() is called
\* exactly once, and the process environment then holds every write of
\* patchProcessEnv; if patchProcessEnv raises, next() is not called and the
\* request leaves the process environment as it was.
C21_NextAfterPatch ==
    (last.request /\ last.write = "none") =>
        /\ last.outcome = "return" =>
              /\ last.nextCalls = 1
              /\ last.envAtNext = Effective(last.pre)
              /\ processEnv = last.envAtNext
        /\ last.outcome = "throw" =>
              /\ last.nextCalls = 0
              /\ processEnv = last.pre

\* C21 witness: a request whose patch changed the process environment
\* before next() was called.
C21_Witness ==
    /\ last.request
    /\ last.outcome = "return"
    /\ last.nextCalls = 1
    /\ last.envAtNext # last.pre
    /\ processEnv = last.envAtNext

\* The orders in which the elements of seq can be listed.
Reorderings(seq) ==
    { [i \in 1..Len(seq) |-> seq[f[i]]] : f \in Permutations(1..Len(seq)) }

\* The configuration in use with the active vars listed as `entries` and
\* config.variables as `variables`.
Reordered(env, entries, variables) ==
    [config EXCEPT
        !.environments = [config.environments EXCEPT
                             ![SelectedName(env)] = [vars |-> entries]],
        !.variables = variables]

\* C23: the mapping resolveRuntimeEnv returns is the same for every order of
\* the active vars entries and every order of config.variables, and the same
\* when the names of config.variables that are keys of the vars are left
\* out of config.variables.
C23_OrderIndependent ==
    (ResolveReturned /\ HasEntry(last.pre)) =>
        /\ \A entries \in Reorderings(ActiveVars(last.pre)),
              variables \in Reorderings(ConfigVariables) :
              resolveRuntimeEnv(Reordered(last.pre, entries, variables),
                                last.pre).value = last.value
        /\ resolveRuntimeEnv(
               Reordered(last.pre, ActiveVars(last.pre),
                         SelectSeq(ConfigVariables,
                                   LAMBDA X : X \notin ActiveKeys(last.pre))),
               last.pre).value = last.value

\* C23 witness: a resolution with several vars entries, one of them the
\* RUNTIME_ key of another, several variables, and a name in both whose
\* override was applied.
C23_Witness ==
    /\ ResolveReturned /\ HasEntry(last.pre)
    /\ Len(ActiveVars(last.pre)) >= 2
    /\ Len(ConfigVariables) >= 2
    /\ \E X \in ActiveKeys(last.pre) :
         /\ RuntimeKey(X) \in ActiveKeys(last.pre)
         /\ X \in Range(ConfigVariables)
         /\ IsSet(last.pre, RuntimeKey(X))
         /\ last.value[X] = last.pre[RuntimeKey(X)]

-----------------------------------------------------------------------------
(* The bootstrap script: src/server.js                                     *)

BootEnvKeys ==
    { "APP_ENV", "NODE_ENV", "DEBUG", "NEXTAUTH_URL", "NEXTAUTH_URL_INTERNAL",
      "RUNTIME_NEXTAUTH_URL", "RUNTIME_NEXTAUTH_URL_INTERNAL" }

\* The largest number of requests that leave a line on the console.
MaxRequests == 2

\* A console line: the part of server.js that wrote it, the console method
\* (log, warn, error) and the text.
Line(by, level, text) == [by |-> by, level |-> level, text |-> text]

\* `${value}` of a string-or-undefined value.
Show(v) == IF v = Undefined THEN "undefined" ELSE v

\* The path given after --config.
ConfigPath == "custom.config.js"

\* let config = { ... }: the built-in configuration.
DefaultConfig(env) ==
    [environments |->
        [production  |-> [vars |-> <<>>],
         development |-> [vars |-> <<>>],
         staging     |-> [vars |-> <<>>],
         local       |-> [vars |-> <<<<"NEXTAUTH_URL", "http://localhost:3000">>>>]],
     variables   |-> <<"NEXTAUTH_URL", "NEXT_PUBLIC_API_URL">>,
     envSelector |-> "APP_ENV",
     debug       |-> (Get(env, "DEBUG") = "true")]

\* module.exports of examples/runtime-env.config.js.
ExampleConfig(env) ==
    [environments |->
        [production |-> [vars |->
            << <<"NEXTAUTH_URL", "https://app.example.com">>,
               <<"NEXT_PUBLIC_API_URL", "https://api.example.com">>,
               <<"NEXT_PUBLIC_APP_NAME", "My App">>,
               <<"NEXT_PUBLIC_ENVIRONMENT", "production">> >>],
         development |-> [vars |->
            << <<"NEXTAUTH_URL", "https://dev.example.com">>,
               <<"NEXT_PUBLIC_API_URL", "https://api-dev.example.com">>,
               <<"NEXT_PUBLIC_APP_NAME", "My App (Dev)">>,
               <<"NEXT_PUBLIC_ENVIRONMENT", "development">> >>],
         staging |-> [vars |->
            << <<"NEXTAUTH_URL", "https://staging.example.com">>,
               <<"NEXT_PUBLIC_API_URL", "https://api-staging.example.com">>,
               <<"NEXT_PUBLIC_APP_NAME", "My App (Staging)">>,
               <<"NEXT_PUBLIC_ENVIRONMENT", "staging">> >>],
         local |-> [vars |->
            << <<"NEXTAUTH_URL", "http://localhost:3000">>,
               <<"NEXT_PUBLIC_API_URL", "http://localhost:8000">>,
               <<"NEXT_PUBLIC_APP_NAME", "My App (Local)">>,
               <<"NEXT_PUBLIC_ENVIRONMENT", "local">> >>]],
     variables |->
        <<"NEXTAUTH_URL", "NEXTAUTH_URL_INTERNAL", "NEXT_PUBLIC_API_URL",
          "NEXT_PUBLIC_APP_NAME", "NEXT_PUBLIC_ENVIRONMENT", "DATABASE_URL",
          "REDIS_URL">>,
     envSelector |-> "APP_ENV",
     debug       |-> (Get(env, "DEBUG") = "true"),
     validate    |-> "exampleValidate"]

\* The objects a configuration file may export besides the example: a
\* validate callback alone (the built-in table stays in use), and a table
\* that gives both URLs, in one environment with empty values.
ValidateOnlyConfig == [validate |-> "exampleValidate"]
InternalUrlConfig ==
    [environments |->
        [production  |-> [vars |-> << <<"NEXTAUTH_URL", "https://prod">>,
                                      <<"NEXTAUTH_URL_INTERNAL", "http://internal">> >>],
         development |-> [vars |-> << <<"NEXTAUTH_URL", "">>,
                                      <<"NEXTAUTH_URL_INTERNAL", "">> >>]],
     variables |-> <<"NEXTAUTH_URL", "NEXTAUTH_URL_INTERNAL">>]

ArgFiles(env) ==
    { ConfigFile("noflag", NoExports), ConfigFile("missing", NoExports),
      ConfigFile("broken", NoExports),
      ConfigFile("loaded", InternalUrlConfig) }
LocalFiles(env) ==
    { ConfigFile("missing", NoExports), ConfigFile("broken", NoExports),
      ConfigFile("loaded", ExampleConfig(env)),
      ConfigFile("loaded", ValidateOnlyConfig) }

\* Mutant of LoadConfig: runtime-env.config.js is spread first and the
\* --config file over it.
LoadConfigArgLast(env, arg, local) ==
    LET builtin == DefaultConfig(env)
        custom  == IF local.state = "loaded"
                   THEN Merge(builtin, local.exports) ELSE builtin
    IN  IF arg.state = "loaded" THEN Merge(custom, arg.exports) ELSE custom

\* Lines 21-69: the built-in configuration, then the --config file, then
\* runtime-env.config.js, each spread over what came before; a require
\* that throws leaves the configuration as it is.
LoadConfig(env, arg, local) ==
    LET builtin == DefaultConfig(env)
        custom  == IF arg.state = "loaded"
                   THEN Merge(builtin, arg.exports) ELSE builtin
    IN  IF local.state = "loaded" THEN Merge(custom, local.exports) ELSE custom

\* Lines 50-69: what configuration loading writes to the console.  A file
\* that is missing and one that fails to load both make require() throw.
LoadConfigOutput(env, arg, local) ==
    LET argLines ==
            IF arg.state = "noflag" THEN <<>>
            ELSE IF arg.state = "loaded"
            THEN << Line("config", "log",
                         "[next-runtime-env] Loaded configuration from "
                             \o ConfigPath) >>
            ELSE << Line("config", "error",
                         "[next-runtime-env] Failed to load configuration from "
                             \o ConfigPath \o ":") >>
        localLines ==
            IF local.state = "loaded" /\ LoadConfig(env, arg, local).debug
            THEN << Line("config", "log",
                         "[next-runtime-env] Loaded runtime-env.config.js") >>
            ELSE <<>>
    IN  argLines \o localLines

\* Object.entries(envConfig.vars).forEach(...) of server.js: overrides are
\* read from, and values written to, the live process.env; an empty
\* configured value writes nothing.
RECURSIVE ServerApplyVars(_, _)
ServerApplyVars(entries, env) ==
    IF entries = <<>> THEN env
    ELSE LET key        == Head(entries)[1]
             value      == Head(entries)[2]
             runtimeKey == RuntimeKey(key)
         IN  ServerApplyVars(Tail(entries),
                 IF Truthy(Get(env, runtimeKey))
                 THEN Put(env, key, env[runtimeKey])
                 ELSE IF Truthy(value) THEN Put(env, key, value)
                 ELSE env)

\* config.variables.forEach(...) of server.js.
RECURSIVE ServerApplyVariables(_, _)
ServerApplyVariables(variables, env) ==
    IF variables = <<>> THEN env
    ELSE LET varName    == Head(variables)
             runtimeKey == RuntimeKey(varName)
         IN  ServerApplyVariables(Tail(variables),
                 IF Truthy(Get(env, runtimeKey))
                 THEN Put(env, varName, env[runtimeKey])
                 ELSE env)

\* The console lines of the two loops (90, 94, 103), in order.
RECURSIVE ServerApplyVarsOutput(_, _)
ServerApplyVarsOutput(entries, env) ==
    IF entries = <<>> THEN <<>>
    ELSE LET key        == Head(entries)[1]
             value      == Head(entries)[2]
             runtimeKey == RuntimeKey(key)
             lines ==
                 IF Truthy(Get(env, runtimeKey))
                 THEN << Line("resolveRuntimeEnv", "log",
                              "[next-runtime-env] Using runtime override: "
                                  \o key \o "=" \o env[runtimeKey]) >>
                 ELSE IF Truthy(value)
                 THEN << Line("resolveRuntimeEnv", "log",
                              "[next-runtime-env] Setting " \o key \o "="
                                  \o value \o " (was: "
                                  \o Show(Get(env, key)) \o ")") >>
                 ELSE <<>>
         IN  lines \o ServerApplyVarsOutput(Tail(entries),
                          ServerApplyVars(<<Head(entries)>>, env))

RECURSIVE ServerApplyVariablesOutput(_, _)
ServerApplyVariablesOutput(variables, env) ==
    IF variables = <<>> THEN <<>>
    ELSE LET varName    == Head(variables)
             runtimeKey == RuntimeKey(varName)
             lines ==
                 IF Truthy(Get(env, runtimeKey))
                 THEN << Line("resolveRuntimeEnv", "log",
                              "[next-runtime-env] Using runtime override: "
                                  \o varName \o "=" \o env[runtimeKey]) >>
                 ELSE <<>>
         IN  lines \o ServerApplyVariablesOutput(Tail(variables),
                          ServerApplyVariables(<<varName>>, env))

\* Special handling for NextAuth (lines 107-110).
DeriveInternalUrl(env) ==
    IF Truthy(Get(env, "NEXTAUTH_URL")) /\ ~Truthy(Get(env, "NEXTAUTH_URL_INTERNAL"))
    THEN Put(env, "NEXTAUTH_URL_INTERNAL", env["NEXTAUTH_URL"])
    ELSE env

\* resolveRuntimeEnv() of server.js (72-111) on process.env: the process
\* environment it leaves and whether it returns or throws.
serverResolveRuntimeEnv(cfg, env) ==
    LET currentEnv ==
            IF Truthy(Get(env, cfg.envSelector)) THEN env[cfg.envSelector]
            ELSE IF Truthy(Get(env, "NODE_ENV")) THEN env["NODE_ENV"]
            ELSE "production"
        envConfig  == LookupEnvironment(cfg.environments, currentEnv)
        starting   == Line("resolveRuntimeEnv", "log",
                           "[next-runtime-env] Starting server with environment: "
                               \o currentEnv)
        warning    == Line("resolveRuntimeEnv", "warn",
                           "[next-runtime-env] No configuration found for environment: "
                               \o currentEnv)
    IN  IF envConfig.kind = "undefined"
        THEN [env |-> env, outcome |-> "return", output |-> <<starting, warning>>]
        ELSE IF envConfig.kind = "inherited"
        THEN [env |-> env, outcome |-> "throw", output |-> <<starting>>]
        ELSE [env |-> DeriveInternalUrl(
                          ServerApplyVariables(cfg.variables,
                              ServerApplyVars(envConfig.vars, env))),
              outcome |-> "return",
              output |-> <<starting>>
                         \o ServerApplyVarsOutput(envConfig.vars, env)
                         \o ServerApplyVariablesOutput(cfg.variables,
                                ServerApplyVars(envConfig.vars, env))]

\* The script starts: process.env and the configuration files are given.
BootInit ==
    /\ processEnv \in Environments(BootEnvKeys)
    /\ envAtStart = processEnv
    /\ argFile \in ArgFiles(processEnv)
    /\ localFile \in LocalFiles(processEnv)
    /\ config = DefaultConfig(processEnv)
    /\ last = NoCall
    /\ pc = "start"
    /\ log = <<>>

\* Lines 21-69: load the configuration.
BootLoadConfig ==
    /\ pc = "start"
    /\ config' = LoadConfig(processEnv, argFile, localFile)
    /\ log' = log \o LoadConfigOutput(processEnv, argFile, localFile)
    /\ pc' = "configured"
    /\ UNCHANGED <<processEnv, last, argFile, localFile, envAtStart>>

\* Line 114: resolveRuntimeEnv().  An exception it throws is uncaught and
\* ends the process.
BootResolveRuntimeEnv ==
    /\ pc = "configured"
    /\ LET r == serverResolveRuntimeEnv(config, processEnv)
       IN  /\ processEnv' = r.env
           /\ log' = log \o r.output
           /\ pc' = IF r.outcome = "throw" THEN "crashed" ELSE "resolved"
    /\ UNCHANGED <<config, last, argFile, localFile, envAtStart>>

\* Lines 116-203, the rest of the script's synchronous part: the final
\* log, require('next'), next({...}), app.prepare() and the signal handlers.
BootLoadNext ==
    /\ pc = "resolved"
    /\ pc' = "preparing"
    /\ log' = IF config.debug
              THEN Append(log, Line("final", "log",
                                    "[next-runtime-env] Final environment:"))
              ELSE log
    /\ UNCHANGED <<processEnv, config, last, argFile, localFile, envAtStart>>

\* Lines 180-190: what the listen callback writes to the console.
ListenOutput(cfg, env) ==
    LET selected == IF Truthy(Get(env, cfg.envSelector)) THEN env[cfg.envSelector]
                    ELSE Get(env, "NODE_ENV")
    IN  << Line("listen", "log",
                "[next-runtime-env] Server ready on http://0.0.0.0:3000") >>
        \o (IF Truthy(Get(env, "NEXTAUTH_URL"))
            THEN << Line("listen", "log", "[next-runtime-env] NextAuth URL: "
                                             \o env["NEXTAUTH_URL"]) >>
            ELSE <<>>)
        \o (IF Truthy(Get(env, "NEXT_PUBLIC_API_URL"))
            THEN << Line("listen", "log", "[next-runtime-env] Public API URL: "
                                             \o env["NEXT_PUBLIC_API_URL"]) >>
            ELSE <<>>)
        \o << Line("listen", "log",
                   "[next-runtime-env] Environment: " \o Show(selected)) >>

\* Mutant of BootListen: the NextAuth derivation is made in the listen
\* callback.
BootListenDerives ==
    /\ pc = "preparing"
    /\ pc' = "listening"
    /\ processEnv' = DeriveInternalUrl(processEnv)
    /\ log' = log \o ListenOutput(config, processEnv)
    /\ UNCHANGED <<config, last, argFile, localFile, envAtStart>>

\* Lines 163-192: app.prepare() is fulfilled; createServer(...).listen().
BootListen ==
    /\ pc = "preparing"
    /\ pc' = "listening"
    /\ log' = log \o ListenOutput(config, processEnv)
    /\ UNCHANGED <<processEnv, config, last, argFile, localFile, envAtStart>>

\* app.prepare() is rejected: nothing handles the rejection.
BootPrepareRejected ==
    /\ pc = "preparing"
    /\ pc' = "crashed"
    /\ UNCHANGED <<processEnv, config, last, argFile, localFile, envAtStart, log>>

\* The request paths, and the number of console lines requests have left.
RequestPaths == { "/", "/api/auth/session" }
RequestLines == Len(SelectSeq(log, LAMBDA line : line.by = "request"))

\* Lines 164-178: a request is handled by the application's handler, which
\* resolves or throws; process.env is passed to nothing that writes it.
BootHandleRequest ==
    /\ pc = "listening"
    /\ RequestLines < MaxRequests
    /\ \E pathname \in RequestPaths, handled \in BOOLEAN :
         log' = log
                \o (IF config.debug /\ StartsWith(pathname, "/api/auth")
                    THEN << Line("request", "log",
                                 "[next-runtime-env] Auth request: GET "
                                     \o pathname) >>
                    ELSE <<>>)
                \o (IF handled THEN <<>>
                    ELSE << Line("request", "error",
                                 "[next-runtime-env] Error handling request:") >>)
    /\ UNCHANGED <<processEnv, config, last, pc, argFile, localFile, envAtStart>>

\* Lines 195-203: SIGTERM or SIGINT.
BootSignal ==
    /\ pc \in {"preparing", "listening"}
    /\ pc' = "exited"
    /\ \E signal \in {"SIGTERM", "SIGINT"} :
         log' = Append(log, Line("signal", "log",
                                 "[next-runtime-env] " \o signal
                                     \o " received, shutting down gracefully"))
    /\ UNCHANGED <<processEnv, config, last, argFile, localFile, envAtStart>>

BootNext ==
    \/ BootLoadConfig
    \/ BootResolveRuntimeEnv
    \/ BootLoadNext
    \/ BootListen
    \/ BootPrepareRejected
    \/ BootHandleRequest
    \/ BootSignal

BootSpec == BootInit /\ [][BootNext]_vars

-----------------------------------------------------------------------------
(* Properties of the bootstrap script                                      *)

\* The application has been prepared (app.prepare() called) or is serving.
BootStarted == pc \in {"preparing", "listening"}

\* Environment application has completed.
BootApplied == pc \in {"resolved", "preparing", "listening"}

\* C8: if the loaded configuration supplies a validate callback that raises
\* for the resolved environment, startup is aborted: the application is
\* never prepared and the HTTP server never listens.
C8_ValidationFailureAbortsStartup ==
    (/\ "validate" \in DOMAIN config
     /\ HasEntry(envAtStart)
     /\ CallValidate(config.validate, processEnv) # Undefined) =>
        ~BootStarted

\* C9: every write the bootstrap makes to the process environment, the
\* derived NEXTAUTH_URL_INTERNAL included, is made by the resolveRuntimeEnv()
\* step, before next is loaded and before the server listens; no later step
\* writes it.
C9_WritesPrecedeServing ==
    [][processEnv' # processEnv =>
          (pc = "configured" /\ pc' \in {"resolved", "crashed"})]_vars

\* C9 witness: the server listens and the process environment holds the
\* derived key, which it did not hold at start.
C9_Witness ==
    /\ pc = "listening"
    /\ "NEXTAUTH_URL_INTERNAL" \in DOMAIN processEnv \ DOMAIN envAtStart
    /\ processEnv["NEXTAUTH_URL_INTERNAL"] = processEnv["NEXTAUTH_URL"]

\* The process environment once both loops of the bootstrap's resolver have
\* run, before the NextAuth derivation (as at start when the selected name
\* has no entry).
AppliedBeforeDerivation ==
    IF HasEntry(envAtStart)
    THEN ServerApplyVariables(ConfigVariables,
             ServerApplyVars(ActiveVars(envAtStart), envAtStart))
    ELSE envAtStart

\* C10: once environment application has completed, whatever name is
\* selected: if NEXTAUTH_URL is non-empty and NEXTAUTH_URL_INTERNAL absent or
\* empty, NEXTAUTH_URL_INTERNAL equals NEXTAUTH_URL; a non-empty
\* NEXTAUTH_URL_INTERNAL is left as it was.
C10_InternalUrlDerived ==
    BootApplied =>
        /\ (/\ IsSet(AppliedBeforeDerivation, "NEXTAUTH_URL")
            /\ ~IsSet(AppliedBeforeDerivation, "NEXTAUTH_URL_INTERNAL")) =>
               Get(processEnv, "NEXTAUTH_URL_INTERNAL") =
                   AppliedBeforeDerivation["NEXTAUTH_URL"]
        /\ IsSet(AppliedBeforeDerivation, "NEXTAUTH_URL_INTERNAL") =>
               Get(processEnv, "NEXTAUTH_URL_INTERNAL") =
                   AppliedBeforeDerivation["NEXTAUTH_URL_INTERNAL"]

\* The line that reports a configuration file that could not be loaded.
LoadFailureLine(path) ==
    Line("config", "error",
         "[next-runtime-env] Failed to load configuration from " \o path \o ":")

\* C15: configuration loading never aborts startup: with no configuration
\* file loaded (missing, or failing to load) the built-in configuration is in
\* use, and a file that exists but fails to load, the --config file or
\* runtime-env.config.js, is reported on the console as a failure to load.
C15_ConfigLoadingRecovers ==
    pc # "start" =>
        /\ (argFile.state # "loaded" /\ localFile.state # "loaded") =>
               config = DefaultConfig(envAtStart)
        /\ argFile.state = "broken" =>
               LoadFailureLine(ConfigPath) \in Range(log)
        /\ localFile.state = "broken" =>
               LoadFailureLine("runtime-env.config.js") \in Range(log)

\* The lines the bootstrap's resolver has written.
ResolverLines == SelectSeq(log, LAMBDA line : line.by = "resolveRuntimeEnv")

\* C16: trace output is gated by the debug flag: with debug false the
\* bootstrap's resolver writes no trace or warning line, and the warning
\* about an unrecognised environment name is written if and only if debug
\* is true.
C16_TraceGatedByDebug ==
    pc # "start" =>
        /\ config.debug # TRUE => ResolverLines = <<>>
        /\ BootApplied =>
              ((\E line \in Range(ResolverLines) : line.level = "warn")
                  <=> (config.debug = TRUE /\ ~HasEntry(envAtStart)))

\* What the library's patchProcessEnv leaves when run with the loaded
\* configuration on the process environment the script started with.
LibraryPatched == patchProcessEnv(config, envAtStart).env

\* C22: for a configuration without validate, the bootstrap's resolver and
\* the library's patchProcessEnv, run from the same process environment,
\* leave the same value for every key other than NEXTAUTH_URL_INTERNAL.
C22_BootstrapMatchesLibrary ==
    (BootApplied /\ "validate" \notin DOMAIN config) =>
        \A key \in (DOMAIN processEnv \cup DOMAIN LibraryPatched)
                        \ {"NEXTAUTH_URL_INTERNAL"} :
            Get(processEnv, key) = Get(LibraryPatched, key)


\* The top-level fields a configuration file contributed: those of its
\* exports when require() returned, none when it threw or was not tried.
Contributed(file) ==
    IF file.state = "loaded" THEN DOMAIN file.exports ELSE {}

\* C24: once loaded, the bootstrap's configuration has exactly the top-level
\* fields of the built-in defaults and of the files that loaded, and each
\* field is, whole, the value of the last source that has it, in the order
\* built-in defaults, --config file, runtime-env.config.js.
C24_ConfigPrecedence ==
    (pc # "start") =>
        /\ DOMAIN config = DOMAIN DefaultConfig(envAtStart)
                               \cup Contributed(argFile) \cup Contributed(localFile)
        /\ \A field \in DOMAIN config :
              config[field] =
                  IF field \in Contributed(localFile)
                  THEN localFile.exports[field]
                  ELSE IF field \in Contributed(argFile)
                  THEN argFile.exports[field]
                  ELSE DefaultConfig(envAtStart)[field]

\* C24 witness: both files loaded and both give environments, with different
\* tables; the working-directory file's table is the one in use.
C24_Witness ==
    /\ pc = "configured"
    /\ argFile.state = "loaded" /\ localFile.state = "loaded"
    /\ "environments" \in Contributed(argFile) \cap Contributed(localFile)
    /\ argFile.exports.environments # localFile.exports.environments
    /\ config.environments = localFile.exports.environments
    /\ config.environments # DefaultConfig(envAtStart).environments
====
